---- MODULE Spec2Model ----
(***************************************************************************)
(* Window SqFt Estimator: the interactive annotation engine of App().      *)
(* Two builds of the component are modelled: src/unnamed/part_000 (with    *)
(* resetView) and src/src/App.tsx; the variable build selects the file     *)
(* whose handlers run.  React state is read as of the last render and one  *)
(* event handler runs to completion, followed by a render, per step.       *)
(***************************************************************************)
EXTENDS Integers, Sequences, FiniteSets, TLC

(***************************************************************************)
(* JavaScript numbers.  A number is a fraction [n, d] in lowest terms with *)
(* d > 0; d = 0 encodes the non-finite values: NaN = 0/0, Infinity = 1/0,  *)
(* -Infinity = -1/0.  Rounding of finite values is not modelled.           *)
(***************************************************************************)
RECURSIVE Gcd(_, _)
Gcd(a, b) == IF b = 0 THEN a ELSE Gcd(b, a % b)

AbsInt(i) == IF i < 0 THEN -i ELSE i

SignInt(i) == IF i < 0 THEN -1 ELSE IF i = 0 THEN 0 ELSE 1

Norm(n, d) ==
    IF d = 0 THEN [n |-> SignInt(n), d |-> 0]
    ELSE LET g == Gcd(AbsInt(n), AbsInt(d))
             s == IF d < 0 THEN -1 ELSE 1
         IN  [n |-> (s * n) \div g, d |-> (s * d) \div g]

R(i) == [n |-> i, d |-> 1]

NaN == [n |-> 0, d |-> 0]

Infinity == [n |-> 1, d |-> 0]

IsNaN(a) == a.n = 0 /\ a.d = 0

Add(a, b) ==
    IF IsNaN(a) \/ IsNaN(b) THEN NaN
    ELSE IF a.d = 0 /\ b.d = 0 THEN (IF a.n = b.n THEN a ELSE NaN)
    ELSE IF a.d = 0 THEN a
    ELSE IF b.d = 0 THEN b
    ELSE Norm(a.n * b.d + b.n * a.d, a.d * b.d)

Neg(a) == [n |-> -a.n, d |-> a.d]

Sub(a, b) == Add(a, Neg(b))

Mul(a, b) == Norm(a.n * b.n, a.d * b.d)

Div(a, b) ==
    IF b.n < 0 THEN Norm(-(a.n * b.d), -(a.d * b.n))
    ELSE Norm(a.n * b.d, a.d * b.n)

\* a < b as JavaScript evaluates it: false as soon as one side is NaN
Lt(a, b) ==
    IF IsNaN(a) \/ IsNaN(b) THEN FALSE
    ELSE IF a.d = 0 /\ b.d = 0 THEN a.n < b.n
    ELSE a.n * b.d < b.n * a.d

Gt(a, b) == Lt(b, a)

\* Math.min / Math.max / Math.abs: NaN if an argument is NaN
MathMin(a, b) == IF IsNaN(a) \/ IsNaN(b) THEN NaN ELSE IF Lt(b, a) THEN b ELSE a

MathMax(a, b) == IF IsNaN(a) \/ IsNaN(b) THEN NaN ELSE IF Lt(a, b) THEN b ELSE a

MathAbs(a) == [n |-> AbsInt(a.n), d |-> a.d]

\* Math.sqrt on the squares of fractions (the pointer grid keeps every
\* squared distance a perfect square)
ISqrt(k) == CHOOSE r \in 0..k : r * r = k

MathSqrt(a) ==
    IF a.d = 0 THEN (IF a.n = 1 THEN Infinity ELSE NaN)
    ELSE IF a.n < 0 THEN NaN
    ELSE Norm(ISqrt(a.n), ISqrt(a.d))

\* JavaScript truthiness of a number: 0 and NaN are falsy
Truthy(a) == ~IsNaN(a) /\ a.n # 0

Null == [null |-> TRUE]


(***************************************************************************)
(* Bounds of the model and the environment's inputs.                       *)
(***************************************************************************)
\* number of events (handler runs) explored from the initial state, with
\* every handler and every input enabled
MaxSteps == 6

\* number of events explored when two pointers draw, pinch and delete on a
\* picked photo (no third pointer, no preset or view button)
MaxGestureSteps == 10

\* number of events explored when one pointer draws and the reference
\* preset and inches are edited (no pinch)
MaxMeasureSteps == 9

\* number of events explored in the end-to-end scenario (one pointer on a
\* letterboxed 1000x800 photo)
MaxScenarioSteps == 9

\* number of events explored in a whole session (two pointers on two device
\* points)
MaxSessionSteps == 13

PointerIds == {1, 2, 3}

\* the two fingers of the two-finger exploration
GestureIds == {1, 2}

\* the single pointer of the measurement exploration
MeasureIds == {1}

\* canvas.getBoundingClientRect(): the display surface, in CSS pixels
CanvasRect == [left |-> R(0), top |-> R(0), width |-> R(6), height |-> R(8)]

\* e.clientX / e.clientY of the pointer events (pairwise distances 0, 5, 10)
DevicePoints == { [x |-> R(0), y |-> R(0)],
                  [x |-> R(3), y |-> R(4)],
                  [x |-> R(6), y |-> R(8)] }

\* clientX / clientY of the pointer events of a whole session
SessionPoints ==
    { [x |-> R(0), y |-> R(0)], [x |-> R(3), y |-> R(4)] }

\* naturalWidth / naturalHeight of the photos that can be picked
ImageSizes == { [w |-> R(30), h |-> R(40)] }

\* values typed into the "Reference height (inches)" input
InchesInputs == { R(0), R(20) }

\* the photo of the end-to-end scenario
ScenarioImageSizes == { [w |-> R(1000), h |-> R(800)] }

\* client points of the scenario: the canvas corner (above the letterboxed
\* photo) and the device points of the image points (100,100), (150,300),
\* (300,300), (400,350) and (400,100)
ScenarioPoints == { [x |-> R(0), y |-> R(0)],
                    [x |-> Norm(3, 5), y |-> Norm(11, 5)],
                    [x |-> Norm(9, 10), y |-> Norm(17, 5)],
                    [x |-> Norm(9, 5), y |-> Norm(17, 5)],
                    [x |-> Norm(12, 5), y |-> Norm(37, 10)],
                    [x |-> Norm(12, 5), y |-> Norm(11, 5)] }

\* inputs of the coordinate transforms taken as pure functions: photos that
\* fit the canvas exactly, are letterboxed and are pillarboxed; a canvas at
\* the page origin and one away from it; views a pinch can leave; image
\* points as fractions of the photo's size; client points in and around
\* the canvas
TransformImageSizes == { [w |-> R(30), h |-> R(40)],
                         [w |-> R(1000), h |-> R(800)],
                         [w |-> R(3), h |-> R(8)] }

TransformRects ==
    { CanvasRect,
      [left |-> R(10), top |-> R(20), width |-> R(8), height |-> R(6)] }

TransformViews ==
    { [scale |-> sc, tx |-> tx, ty |-> ty] :
          sc \in {R(1), Norm(3, 2), R(6), NaN},
          tx \in {R(-3), R(0), R(2)},
          ty \in {R(-1), R(0), R(5)} }

ImageFractions ==
    { [x |-> fx, y |-> fy] : fx \in {R(0), Norm(1, 3), R(1)},
                             fy \in {R(0), Norm(1, 2), R(1)} }

TransformDevicePoints ==
    { [x |-> R(x), y |-> R(y)] : x \in {-1, 0, 3, 12, 40},
                                 y \in {-1, 0, 4, 21, 60} }

BoxTypes == {"reference", "window"}

Presets == {"paper", "door", "custom"}

Builds == {"part_000", "App"}

VARIABLES build, imageUrl, imgLoading, imageNatural, boxes, activeDrawType,
          dragStart, draftBox, refPreset, refRealInches, view, pointers,
          pinchStart, steps, event, probe

vars == <<build, imageUrl, imgLoading, imageNatural, boxes, activeDrawType,
          dragStart, draftBox, refPreset, refRealInches, view, pointers,
          pinchStart, steps, event, probe>>

(***************************************************************************)
(* Pure helpers of the component.                                          *)
(***************************************************************************)
\* uid(): an identity no box of the set carries
UidNames == <<"u1", "u2", "u3", "u4", "u5", "u6">>

uid(prev) ==
    LET used == { prev[i].id : i \in 1..Len(prev) }
        k == CHOOSE j \in 1..Len(UidNames) :
                 /\ UidNames[j] \notin used
                 /\ \A m \in 1..(j - 1) : UidNames[m] \in used
    IN  UidNames[k]

dist(a, b) ==
    LET dx == Sub(a.x, b.x)
        dy == Sub(a.y, b.y)
    IN  MathSqrt(Add(Mul(dx, dx), Mul(dy, dy)))

mid(a, b) == [x |-> Div(Add(a.x, b.x), R(2)), y |-> Div(Add(a.y, b.y), R(2))]

clampScale(s) == MathMax(R(1), MathMin(R(6), s))

IsReference(b) == b.type = "reference"

IsWindow(b) == b.type = "window"

referenceBoxOf(bs) ==
    IF \E i \in 1..Len(bs) : IsReference(bs[i])
    THEN bs[CHOOSE i \in 1..Len(bs) :
                /\ IsReference(bs[i])
                /\ \A j \in 1..(i - 1) : ~IsReference(bs[j])]
    ELSE Null

referenceBox == referenceBoxOf(boxes)

\* variant: the width of the reference box is used
pixelsPerInchOfWidth(ref, inches) ==
    IF ref = Null THEN Null
    ELSE IF ~Gt(inches, R(0)) THEN Null
    ELSE Div(ref.w, inches)

pixelsPerInchOf(ref, inches) ==
    IF ref = Null THEN Null
    ELSE IF ~Gt(inches, R(0)) THEN Null
    ELSE Div(ref.h, inches)

pixelsPerInch == pixelsPerInchOf(referenceBox, refRealInches)

windowBoxesOf(bs) == SelectSeq(bs, IsWindow)

windowBoxes == windowBoxesOf(boxes)

\* variant: the height is not converted to inches
RECURSIVE SumSqftRawHeight(_, _)
SumSqftRawHeight(ws, ppi) ==
    IF ws = <<>> THEN R(0)
    ELSE LET b == ws[Len(ws)]
             wIn == Div(b.w, ppi)
             hIn == b.h
         IN  Add(SumSqftRawHeight(SubSeq(ws, 1, Len(ws) - 1), ppi),
                 Div(Mul(wIn, hIn), R(144)))

RECURSIVE SumSqft(_, _)
SumSqft(ws, ppi) ==
    IF ws = <<>> THEN R(0)
    ELSE LET b == ws[Len(ws)]
             wIn == Div(b.w, ppi)
             hIn == Div(b.h, ppi)
         IN  Add(SumSqft(SubSeq(ws, 1, Len(ws) - 1), ppi),
                 Div(Mul(wIn, hIn), R(144)))

windowSqftOf(ppi, ws) ==
    IF ppi = Null THEN Null
    ELSE IF ~Truthy(ppi) THEN Null
    ELSE SumSqft(ws, ppi)

windowSqft == windowSqftOf(pixelsPerInch, windowBoxes)


(***************************************************************************)
(* Geometry: "contain" fit and device -> image mapping.                    *)
(***************************************************************************)
\* variant: "cover" instead of "contain" (the aspect test is reversed)
getCanvasAndImageScaleOfCover(nat, rect) ==
    IF nat = Null THEN Null
    ELSE LET displayW == rect.width
             displayH == rect.height
             imgAspect == Div(nat.w, nat.h)
             canvasAspect == Div(displayW, displayH)
             wide == Lt(imgAspect, canvasAspect)
             baseW == IF wide THEN displayW ELSE Mul(displayH, imgAspect)
             baseH == IF wide THEN Div(displayW, imgAspect) ELSE displayH
         IN  [rect |-> rect,
              baseW |-> baseW,
              baseH |-> baseH,
              baseOffsetX |-> IF wide THEN R(0)
                              ELSE Div(Sub(displayW, baseW), R(2)),
              baseOffsetY |-> IF wide THEN Div(Sub(displayH, baseH), R(2))
                              ELSE R(0),
              baseScale |-> Div(baseW, nat.w)]

getCanvasAndImageScaleOf(nat, rect) ==
    IF nat = Null THEN Null
    ELSE LET displayW == rect.width
             displayH == rect.height
             imgAspect == Div(nat.w, nat.h)
             canvasAspect == Div(displayW, displayH)
             wide == Gt(imgAspect, canvasAspect)
             baseW == IF wide THEN displayW ELSE Mul(displayH, imgAspect)
             baseH == IF wide THEN Div(displayW, imgAspect) ELSE displayH
         IN  [rect |-> rect,
              baseW |-> baseW,
              baseH |-> baseH,
              baseOffsetX |-> IF wide THEN R(0)
                              ELSE Div(Sub(displayW, baseW), R(2)),
              baseOffsetY |-> IF wide THEN Div(Sub(displayH, baseH), R(2))
                              ELSE R(0),
              baseScale |-> Div(baseW, nat.w)]

getCanvasAndImageScale == getCanvasAndImageScaleOf(imageNatural, CanvasRect)

\* variant: the zoom is undone before the pan
canvasPointToImagePointOfZoomFirst(info, nat, v, clientX, clientY) ==
    IF info = Null \/ nat = Null THEN Null
    ELSE LET xCanvas == Sub(clientX, info.rect.left)
             yCanvas == Sub(clientY, info.rect.top)
             xInBase == Sub(xCanvas, info.baseOffsetX)
             yInBase == Sub(yCanvas, info.baseOffsetY)
             xUnzoom == Sub(Div(xInBase, v.scale), v.tx)
             yUnzoom == Sub(Div(yInBase, v.scale), v.ty)
             xImg == Div(xUnzoom, info.baseScale)
             yImg == Div(yUnzoom, info.baseScale)
         IN  IF Lt(xImg, R(0)) \/ Lt(yImg, R(0)) THEN Null
             ELSE IF Gt(xImg, nat.w) \/ Gt(yImg, nat.h) THEN Null
             ELSE [x |-> xImg, y |-> yImg]

\* variant: the test against the image's width and height is missing
canvasPointToImagePointOfNoUpper(info, nat, v, clientX, clientY) ==
    IF info = Null \/ nat = Null THEN Null
    ELSE LET xCanvas == Sub(clientX, info.rect.left)
             yCanvas == Sub(clientY, info.rect.top)
             xInBase == Sub(xCanvas, info.baseOffsetX)
             yInBase == Sub(yCanvas, info.baseOffsetY)
             xUnzoom == Div(Sub(xInBase, v.tx), v.scale)
             yUnzoom == Div(Sub(yInBase, v.ty), v.scale)
             xImg == Div(xUnzoom, info.baseScale)
             yImg == Div(yUnzoom, info.baseScale)
         IN  IF Lt(xImg, R(0)) \/ Lt(yImg, R(0)) THEN Null
             ELSE [x |-> xImg, y |-> yImg]

canvasPointToImagePointOf(info, nat, v, clientX, clientY) ==
    IF info = Null \/ nat = Null THEN Null
    ELSE LET xCanvas == Sub(clientX, info.rect.left)
             yCanvas == Sub(clientY, info.rect.top)
             xInBase == Sub(xCanvas, info.baseOffsetX)
             yInBase == Sub(yCanvas, info.baseOffsetY)
             xUnzoom == Div(Sub(xInBase, v.tx), v.scale)
             yUnzoom == Div(Sub(yInBase, v.ty), v.scale)
             xImg == Div(xUnzoom, info.baseScale)
             yImg == Div(yUnzoom, info.baseScale)
         IN  IF Lt(xImg, R(0)) \/ Lt(yImg, R(0)) THEN Null
             ELSE IF Gt(xImg, nat.w) \/ Gt(yImg, nat.h) THEN Null
             ELSE [x |-> xImg, y |-> yImg]

canvasPointToImagePoint(clientX, clientY) ==
    canvasPointToImagePointOf(getCanvasAndImageScale, imageNatural, view,
                              clientX, clientY)

\* drawBox of the draw effect: a box in image pixels -> canvas CSS pixels
drawBox(info, v, b) ==
    LET xBase == Mul(b.x, info.baseScale)
        yBase == Mul(b.y, info.baseScale)
        wBase == Mul(b.w, info.baseScale)
        hBase == Mul(b.h, info.baseScale)
    IN  [x |-> Add(Add(info.baseOffsetX, v.tx), Mul(xBase, v.scale)),
         y |-> Add(Add(info.baseOffsetY, v.ty), Mul(yBase, v.scale)),
         w |-> Mul(wBase, v.scale),
         h |-> Mul(hBase, v.scale)]

\* the renderer's chain for one image point, followed by the canvas origin
\* (the inverse of xCanvas = clientX - rect.left)
imageToDevice(info, v, pt) ==
    LET c == drawBox(info, v, [x |-> pt.x, y |-> pt.y, w |-> R(0), h |-> R(0)])
    IN  [x |-> Add(c.x, info.rect.left), y |-> Add(c.y, info.rect.top)]

(***************************************************************************)
(* Pricing section: present only for a truthy area and a truthy scale.     *)
(***************************************************************************)
SOLAR_PER_SQFT == 12

RETAIL_LOW_PER_SQFT == 14

RETAIL_HIGH_PER_SQFT == IF build = "part_000" THEN 15 ELSE 16

Quote(sqft) ==
    LET solarTotal == Mul(sqft, R(SOLAR_PER_SQFT))
        retailLowTotal == Mul(sqft, R(RETAIL_LOW_PER_SQFT))
        retailHighTotal == Mul(sqft, R(RETAIL_HIGH_PER_SQFT))
    IN  [sqft |-> sqft,
         retailLowTotal |-> retailLowTotal,
         retailHighTotal |-> retailHighTotal,
         commissionLow |-> Sub(retailLowTotal, solarTotal),
         commissionHigh |-> Sub(retailHighTotal, solarTotal)]

\* variant: only a missing value hides the pricing, a zero area is quoted
pricingOfNullOnly(sqft, ppi) ==
    IF sqft = Null \/ ppi = Null THEN Null ELSE Quote(sqft)

\* variant: the commission is taken on the low retail rate only
pricingOfFlatCommission(sqft, ppi) ==
    IF sqft = Null \/ ppi = Null THEN Null
    ELSE IF ~Truthy(sqft) \/ ~Truthy(ppi) THEN Null
    ELSE [Quote(sqft) EXCEPT !.commissionHigh = Quote(sqft).commissionLow]

\* the "Retail & Commission" card: Null stands for the "empty" placeholder,
\* which shows no figure and no "Copy estimate" button
pricingOf(sqft, ppi) ==
    IF sqft = Null \/ ppi = Null THEN Null
    ELSE IF ~Truthy(sqft) \/ ~Truthy(ppi) THEN Null
    ELSE Quote(sqft)

pricing == pricingOf(windowSqft, pixelsPerInch)

(***************************************************************************)
(* One-pointer drawing: draft creation, resizing and commit.               *)
(***************************************************************************)
WindowLabels == <<"Window 1", "Window 2", "Window 3", "Window 4", "Window 5">>

ReferenceLabel ==
    IF build = "part_000"
    THEN (IF refPreset = "paper" THEN "Paper"
          ELSE IF refPreset = "door" THEN "Door" ELSE "Reference")
    ELSE (IF refPreset = "paper" THEN "Paper (11in tall)"
          ELSE IF refPreset = "door" THEN "Door (80in tall)" ELSE "Reference")

\* variant: every committed box is counted, the reference box included
DraftLabelAllBoxes ==
    IF activeDrawType = "reference" THEN ReferenceLabel
    ELSE WindowLabels[Len(boxes) + 1]

DraftLabel ==
    IF activeDrawType = "reference" THEN ReferenceLabel
    ELSE WindowLabels[Len(windowBoxes) + 1]

\* variant: every window draft is labelled "Window 1"
NewDraftFirstLabel(pt) ==
    [id |-> "draft", type |-> activeDrawType,
     label |-> IF activeDrawType = "reference" THEN ReferenceLabel
               ELSE WindowLabels[1],
     x |-> pt.x, y |-> pt.y, w |-> R(1), h |-> R(1)]

NewDraft(pt) ==
    [id |-> "draft", type |-> activeDrawType, label |-> DraftLabel,
     x |-> pt.x, y |-> pt.y, w |-> R(1), h |-> R(1)]

handlePointerDown(p) ==
    LET pt == canvasPointToImagePoint(p.x, p.y)
    IN  IF imageUrl = "" \/ pt = Null
        THEN UNCHANGED <<dragStart, draftBox>>
        ELSE /\ dragStart' = pt
             /\ draftBox' = NewDraft(pt)

\* variant: the width and the height keep the sign of the drag
ResizeDraftSigned(d, start, pt) ==
    [d EXCEPT !.x = MathMin(start.x, pt.x),
              !.y = MathMin(start.y, pt.y),
              !.w = Sub(pt.x, start.x),
              !.h = Sub(pt.y, start.y)]

ResizeDraft(d, start, pt) ==
    [d EXCEPT !.x = MathMin(start.x, pt.x),
              !.y = MathMin(start.y, pt.y),
              !.w = MathAbs(Sub(pt.x, start.x)),
              !.h = MathAbs(Sub(pt.y, start.y))]

\* variant: a move that maps outside the image aborts the drag
handlePointerMoveAbortOutside(p) ==
    LET pt == canvasPointToImagePoint(p.x, p.y)
    IN  IF dragStart = Null \/ draftBox = Null
        THEN UNCHANGED draftBox
        ELSE IF pt = Null THEN draftBox' = Null
        ELSE draftBox' = ResizeDraft(draftBox, dragStart, pt)

handlePointerMove(p) ==
    LET pt == canvasPointToImagePoint(p.x, p.y)
    IN  IF dragStart = Null \/ draftBox = Null \/ pt = Null
        THEN UNCHANGED draftBox
        ELSE draftBox' = ResizeDraft(draftBox, dragStart, pt)

\* the "ignore tiny boxes" test of handlePointerUp
TooSmall(d) == Lt(d.w, R(10)) \/ Lt(d.h, R(10))

NotReference(b) == b.type # "reference"

\* variant: the previous reference box is not removed
CommitReferenceKeepAll(prev, d) == Append(prev, [d EXCEPT !.id = uid(prev)])

\* variant: an existing reference box wins over the new one
CommitReferenceKeepFirst(prev, d) ==
    IF \E i \in 1..Len(prev) : prev[i].type = "reference" THEN prev
    ELSE Append(prev, [d EXCEPT !.id = uid(prev)])

CommitReference(prev, d) ==
    Append(SelectSeq(prev, NotReference), [d EXCEPT !.id = uid(prev)])

\* variant: the draft is stored as it is, sentinel identity included
CommitWindowKeepId(prev, d) == Append(prev, d)

\* variant: the new window box is put in front of the others
CommitWindowFirst(prev, d) == <<[d EXCEPT !.id = uid(prev)]>> \o prev

CommitWindow(prev, d) == Append(prev, [d EXCEPT !.id = uid(prev)])

CommitBox(prev, d) ==
    IF d.type = "reference" THEN CommitReference(prev, d)
    ELSE CommitWindow(prev, d)

\* variant: the old reference box is dropped before the size test
handlePointerUpFilterFirst ==
    IF draftBox = Null
    THEN /\ dragStart' = Null
         /\ UNCHANGED <<boxes, draftBox>>
    ELSE IF TooSmall(draftBox)
    THEN /\ draftBox' = Null
         /\ dragStart' = Null
         /\ boxes' = IF draftBox.type = "reference"
                      THEN SelectSeq(boxes, NotReference) ELSE boxes
    ELSE /\ boxes' = CommitBox(boxes, draftBox)
         /\ draftBox' = Null
         /\ dragStart' = Null

handlePointerUp ==
    IF draftBox = Null
    THEN /\ dragStart' = Null
         /\ UNCHANGED <<boxes, draftBox>>
    ELSE IF TooSmall(draftBox)
    THEN /\ draftBox' = Null
         /\ dragStart' = Null
         /\ UNCHANGED boxes
    ELSE /\ boxes' = CommitBox(boxes, draftBox)
         /\ draftBox' = Null
         /\ dragStart' = Null


(***************************************************************************)
(* Pointer tracking (the Map in the pointers ref) and the pinch baseline.  *)
(***************************************************************************)
Tracked(ps) == { i \in PointerIds : ps[i] # Null }

Size(ps) == Cardinality(Tracked(ps))

\* Array.from(pointers.current.values()) when two pointers are tracked;
\* dist and mid are symmetric, so the order of the two entries is immaterial
FirstTracked(ps) == CHOOSE i \in Tracked(ps) : \A j \in Tracked(ps) : i <= j

SecondTracked(ps) == CHOOSE i \in Tracked(ps) : i # FirstTracked(ps)

PinchBaseline(ps, v) ==
    [dist |-> dist(ps[FirstTracked(ps)], ps[SecondTracked(ps)]),
     mid |-> mid(ps[FirstTracked(ps)], ps[SecondTracked(ps)]),
     scale |-> v.scale, tx |-> v.tx, ty |-> v.ty]

\* variant: the zoom compounds on the view of the previous move
PinchViewFromView(start, ps) ==
    LET a == ps[FirstTracked(ps)]
        b == ps[SecondTracked(ps)]
        dNow == dist(a, b)
        mNow == mid(a, b)
    IN  [scale |-> clampScale(Mul(view.scale, Div(dNow, start.dist))),
         tx |-> Add(start.tx, Sub(mNow.x, start.mid.x)),
         ty |-> Add(start.ty, Sub(mNow.y, start.mid.y))]

PinchView(start, ps) ==
    LET a == ps[FirstTracked(ps)]
        b == ps[SecondTracked(ps)]
        dNow == dist(a, b)
        mNow == mid(a, b)
    IN  [scale |-> clampScale(Mul(start.scale, Div(dNow, start.dist))),
         tx |-> Add(start.tx, Sub(mNow.x, start.mid.x)),
         ty |-> Add(start.ty, Sub(mNow.y, start.mid.y))]

\* variant: the draft survives the second pointer
onPointerDownKeepDraft(id, p) ==
    /\ imageUrl # ""
    /\ pointers[id] = Null
    /\ pointers' = [pointers EXCEPT ![id] = p]
    /\ IF Size(pointers') = 2
       THEN /\ pinchStart' = PinchBaseline(pointers', view)
            /\ UNCHANGED <<dragStart, draftBox>>
       ELSE /\ handlePointerDown(p)
            /\ UNCHANGED pinchStart
    /\ UNCHANGED <<build, imageUrl, imgLoading, imageNatural, boxes,
                   activeDrawType, refPreset, refRealInches, view>>

onPointerDown(id, p) ==
    /\ imageUrl # ""
    /\ pointers[id] = Null
    /\ pointers' = [pointers EXCEPT ![id] = p]
    /\ IF Size(pointers') = 2
       THEN /\ pinchStart' = PinchBaseline(pointers', view)
            /\ dragStart' = Null
            /\ draftBox' = Null
       ELSE /\ handlePointerDown(p)
            /\ UNCHANGED pinchStart
    /\ UNCHANGED <<build, imageUrl, imgLoading, imageNatural, boxes,
                   activeDrawType, refPreset, refRealInches, view>>

onPointerMove(id, p) ==
    /\ imageUrl # ""
    /\ IF pointers[id] = Null
       THEN UNCHANGED <<pointers, view, draftBox>>
       ELSE /\ pointers' = [pointers EXCEPT ![id] = p]
            /\ IF Size(pointers') = 2 /\ pinchStart # Null
               THEN /\ view' = PinchView(pinchStart, pointers')
                    /\ UNCHANGED draftBox
               ELSE /\ handlePointerMove(p)
                    /\ UNCHANGED view
    /\ UNCHANGED <<build, imageUrl, imgLoading, imageNatural, boxes,
                   activeDrawType, dragStart, refPreset, refRealInches,
                   pinchStart>>

\* variant: the released pointer stays in the map
onPointerUpKeepTracked(id) ==
    /\ imageUrl # ""
    /\ pointers[id] # Null
    /\ UNCHANGED pointers
    /\ pinchStart' = IF Size(pointers) < 2 THEN Null ELSE pinchStart
    /\ IF Size(pointers) = 0
       THEN handlePointerUp
       ELSE UNCHANGED <<boxes, draftBox, dragStart>>
    /\ UNCHANGED <<build, imageUrl, imgLoading, imageNatural, activeDrawType,
                   refPreset, refRealInches, view>>

\* variant: the pinch baseline outlives the pinch
onPointerUpKeepBaseline(id) ==
    /\ imageUrl # ""
    /\ pointers[id] # Null
    /\ pointers' = [pointers EXCEPT ![id] = Null]
    /\ UNCHANGED pinchStart
    /\ IF Size(pointers') = 0
       THEN handlePointerUp
       ELSE UNCHANGED <<boxes, draftBox, dragStart>>
    /\ UNCHANGED <<build, imageUrl, imgLoading, imageNatural, activeDrawType,
                   refPreset, refRealInches, view>>

onPointerUp(id) ==
    /\ imageUrl # ""
    /\ pointers[id] # Null
    /\ pointers' = [pointers EXCEPT ![id] = Null]
    /\ pinchStart' = IF Size(pointers') < 2 THEN Null ELSE pinchStart
    /\ IF Size(pointers') = 0
       THEN handlePointerUp
       ELSE UNCHANGED <<boxes, draftBox, dragStart>>
    /\ UNCHANGED <<build, imageUrl, imgLoading, imageNatural, activeDrawType,
                   refPreset, refRealInches, view>>

\* onPointerCancel of part_000: every tracked pointer is dropped
CancelPointers000(ps, id) == [i \in PointerIds |-> Null]

\* onPointerCancel of App.tsx: only the cancelled pointer is dropped
CancelPointersApp(ps, id) == [ps EXCEPT ![id] = Null]

\* variant: the draft and the drag anchor survive the cancel
onPointerCancelKeepDraft(id) ==
    /\ imageUrl # ""
    /\ pointers[id] # Null
    /\ pointers' = IF build = "part_000" THEN CancelPointers000(pointers, id)
                   ELSE CancelPointersApp(pointers, id)
    /\ pinchStart' = Null
    /\ UNCHANGED <<dragStart, draftBox>>
    /\ UNCHANGED <<build, imageUrl, imgLoading, imageNatural, boxes,
                   activeDrawType, refPreset, refRealInches, view>>

onPointerCancel(id) ==
    /\ imageUrl # ""
    /\ pointers[id] # Null
    /\ pointers' = IF build = "part_000" THEN CancelPointers000(pointers, id)
                   ELSE CancelPointersApp(pointers, id)
    /\ pinchStart' = Null
    /\ dragStart' = Null
    /\ draftBox' = Null
    /\ UNCHANGED <<build, imageUrl, imgLoading, imageNatural, boxes,
                   activeDrawType, refPreset, refRealInches, view>>

(***************************************************************************)
(* Buttons, inputs and photo loading.                                      *)
(***************************************************************************)
\* variant: the committed boxes survive, only the draft is dropped
resetAllKeepBoxes ==
    /\ UNCHANGED boxes
    /\ draftBox' = Null
    /\ dragStart' = Null

resetAll ==
    /\ boxes' = <<>>
    /\ draftBox' = Null
    /\ dragStart' = Null

resetView == view' = [scale |-> R(1), tx |-> R(0), ty |-> R(0)]

\* variant: clearing the boxes also resets the view
ClearBoxesResetView ==
    /\ imageUrl # ""
    /\ resetAll
    /\ resetView
    /\ UNCHANGED <<build, imageUrl, imgLoading, imageNatural, activeDrawType,
                   refPreset, refRealInches, pointers, pinchStart>>

\* the "Clear boxes" button
ClearBoxes ==
    /\ imageUrl # ""
    /\ resetAll
    /\ UNCHANGED <<build, imageUrl, imgLoading, imageNatural, activeDrawType,
                   refPreset, refRealInches, view, pointers, pinchStart>>

\* variant: resetting the view also clears the boxes
ResetViewClickClearing ==
    /\ imageUrl # ""
    /\ resetView
    /\ resetAll
    /\ UNCHANGED <<build, imageUrl, imgLoading, imageNatural, activeDrawType,
                   refPreset, refRealInches, pointers, pinchStart>>

\* the "Reset view" button (part_000 calls resetView, App.tsx sets the same
\* view inline)
ResetViewClick ==
    /\ imageUrl # ""
    /\ resetView
    /\ UNCHANGED <<build, imageUrl, imgLoading, imageNatural, boxes,
                   activeDrawType, dragStart, draftBox, refPreset,
                   refRealInches, pointers, pinchStart>>

onFileChange(nat) ==
    /\ imageUrl' = "blob"
    /\ imgLoading' = nat
    /\ resetAll
    /\ IF build = "part_000" THEN resetView ELSE UNCHANGED view
    /\ UNCHANGED <<build, imageNatural, activeDrawType, refPreset,
                   refRealInches, pointers, pinchStart>>

\* onLoad of the hidden <img>: the natural size of the picked photo
imgOnLoad ==
    /\ imgLoading # Null
    /\ imageNatural' = imgLoading
    /\ imgLoading' = Null
    /\ UNCHANGED <<build, imageUrl, boxes, activeDrawType, dragStart,
                   draftBox, refPreset, refRealInches, view, pointers,
                   pinchStart>>

setActiveDrawType(t) ==
    /\ imageUrl # ""
    /\ activeDrawType' = t
    /\ UNCHANGED <<build, imageUrl, imgLoading, imageNatural, boxes,
                   dragStart, draftBox, refPreset, refRealInches, view,
                   pointers, pinchStart>>

syncRefPreset(p) ==
    /\ refPreset' = p
    /\ refRealInches' = IF p = "paper" THEN R(11)
                        ELSE IF p = "door" THEN R(80) ELSE refRealInches
    /\ UNCHANGED <<build, imageUrl, imgLoading, imageNatural, boxes,
                   activeDrawType, dragStart, draftBox, view, pointers,
                   pinchStart>>

\* the inches input; part_000 disables it unless the preset is "custom"
setRefRealInches(v) ==
    /\ build = "part_000" => refPreset = "custom"
    /\ refRealInches' = v
    /\ UNCHANGED <<build, imageUrl, imgLoading, imageNatural, boxes,
                   activeDrawType, dragStart, draftBox, refPreset, view,
                   pointers, pinchStart>>

\* variant: every rectangle of the deleted one's kind goes with it
RemoveIdSameKind(prev, id) ==
    LET Hit(b) == b.id = id
        gone == SelectSeq(prev, Hit)
        Keep(b) == gone = <<>> \/ b.type # gone[1].type
    IN  SelectSeq(prev, Keep)

RemoveId(prev, id) ==
    LET Keep(b) == b.id # id IN SelectSeq(prev, Keep)

deleteBox(id) ==
    /\ \E i \in 1..Len(boxes) : boxes[i].id = id
    /\ boxes' = RemoveId(boxes, id)
    /\ UNCHANGED <<build, imageUrl, imgLoading, imageNatural, activeDrawType,
                   dragStart, draftBox, refPreset, refRealInches, view,
                   pointers, pinchStart>>

(***************************************************************************)
(* The state machine.                                                      *)
(***************************************************************************)
Init ==
    /\ build \in Builds
    /\ imageUrl = ""
    /\ imgLoading = Null
    /\ imageNatural = Null
    /\ boxes = <<>>
    /\ activeDrawType = "reference"
    /\ dragStart = Null
    /\ draftBox = Null
    /\ refPreset = "paper"
    /\ refRealInches = R(11)
    /\ view = [scale |-> R(1), tx |-> R(0), ty |-> R(0)]
    /\ pointers = [i \in PointerIds |-> Null]
    /\ pinchStart = Null
    /\ steps = 0
    /\ event = [name |-> "init", id |-> 0, draft |-> Null, owner |-> 0,
                outside |-> FALSE, downOff |-> FALSE, moveOff |-> FALSE,
                pinched |-> FALSE, live |-> {}, base |-> Null,
                deleted |-> FALSE]
    /\ probe = Null

\* a >= b and a <= b on numbers (false when a side is NaN)
Ge(a, b) == ~IsNaN(a) /\ ~IsNaN(b) /\ ~Lt(a, b)

Le(a, b) == ~IsNaN(a) /\ ~IsNaN(b) /\ ~Lt(b, a)

\* the image point that a device point stands for: the device point minus
\* the canvas origin, the base offset and the pan, over zoom times base scale
MappedPoint(rect, nat, v, p) ==
    LET fit == getCanvasAndImageScaleOf(nat, rect)
        k == Mul(v.scale, fit.baseScale)
    IN  [x |-> Div(Sub(Sub(Sub(p.x, rect.left), fit.baseOffsetX), v.tx), k),
         y |-> Div(Sub(Sub(Sub(p.y, rect.top), fit.baseOffsetY), v.ty), k)]

OutsideImage(nat, q) ==
    Lt(q.x, R(0)) \/ Lt(q.y, R(0)) \/ Gt(q.x, nat.w) \/ Gt(q.y, nat.h)

InsideImage(nat, q) ==
    Ge(q.x, R(0)) /\ Ge(q.y, R(0)) /\ Le(q.x, nat.w) /\ Le(q.y, nat.h)

\* the device point p maps outside the loaded image, under the current view
MapsOutside(p) ==
    /\ imageNatural # Null
    /\ OutsideImage(imageNatural, MappedPoint(CanvasRect, imageNatural, view, p))

\* The record of the event that ran last (history, read by the properties):
\* its handler, its pointer id (0 for a button or an input), the draft it
\* found, the pointer whose down event created the draft that exists now,
\* whether its point mapped outside the image, whether the down point or
\* a move point of the latest gesture (from the first pointer's down event
\* on) did, whether a second pointer has gone down in the running gesture,
\* and the live pointers: those with a down event and no later up or cancel
\* event of their own, and the tracked pointers with their positions at the
\* moment the pinch baseline in use was captured.
Record(name, id, p) ==
    LET off == IF name \in {"onPointerDown", "onPointerMove"}
               THEN MapsOutside(p) ELSE FALSE
        first == name = "onPointerDown" /\ Size(pointers) = 0
        moved == IF name = "onPointerMove" THEN pointers[id] # Null
                 ELSE FALSE
    IN  /\ steps' = steps + 1
        /\ event' =
             [name |-> name,
              id |-> id,
              draft |-> draftBox,
              owner |-> IF draftBox' = Null THEN 0
                        ELSE IF /\ name = "onPointerDown"
                                /\ Size(pointers') # 2
                                /\ canvasPointToImagePoint(p.x, p.y) # Null
                        THEN id
                        ELSE event.owner,
              outside |-> off,
              downOff |-> IF first THEN off ELSE event.downOff,
              moveOff |-> IF first THEN FALSE
                          ELSE IF moved THEN event.moveOff \/ off
                          ELSE event.moveOff,
              pinched |-> IF name = "onPointerDown" /\ Size(pointers') = 2
                          THEN TRUE
                          ELSE IF Size(pointers') = 0 THEN FALSE
                          ELSE event.pinched,
              live |-> IF name = "onPointerDown" THEN event.live \cup {id}
                       ELSE IF name \in {"onPointerUp", "onPointerCancel"}
                       THEN event.live \ {id}
                       ELSE event.live,
              base |-> IF name = "onPointerDown" /\ Size(pointers') = 2
                       THEN pointers'
                       ELSE IF pinchStart' = Null THEN Null
                       ELSE event.base,
              deleted |-> event.deleted]
        /\ UNCHANGED probe

\* the record kept where only the handler, the draft it found and the
\* second pointer's down event are read
RecordBrief(name) ==
    /\ steps' = steps + 1
    /\ event' = [event EXCEPT
                    !.name = name,
                    !.draft = draftBox,
                    !.pinched =
                        IF name = "onPointerDown" /\ Size(pointers') = 2
                        THEN TRUE
                        ELSE IF Size(pointers') = 0 THEN FALSE
                        ELSE event.pinched]
    /\ UNCHANGED probe

\* one event: a handler runs to completion and the component re-renders
Event(name, id, p, A) == steps < MaxSteps /\ A /\ Record(name, id, p)

Next ==
    \/ \E id \in PointerIds, p \in DevicePoints :
           Event("onPointerDown", id, p, onPointerDown(id, p))
    \/ \E id \in PointerIds, p \in DevicePoints :
           Event("onPointerMove", id, p, onPointerMove(id, p))
    \/ \E id \in PointerIds : Event("onPointerUp", id, Null, onPointerUp(id))
    \/ \E id \in PointerIds :
           Event("onPointerCancel", id, Null, onPointerCancel(id))
    \/ Event("ClearBoxes", 0, Null, ClearBoxes)
    \/ Event("ResetViewClick", 0, Null, ResetViewClick)
    \/ \E nat \in ImageSizes : Event("onFileChange", 0, Null, onFileChange(nat))
    \/ Event("imgOnLoad", 0, Null, imgOnLoad)
    \/ \E t \in BoxTypes :
           Event("setActiveDrawType", 0, Null, setActiveDrawType(t))
    \/ \E p \in Presets : Event("syncRefPreset", 0, Null, syncRefPreset(p))
    \/ \E v \in InchesInputs :
           Event("setRefRealInches", 0, Null, setRefRealInches(v))
    \/ \E i \in 1..Len(UidNames) :
           Event("deleteBox", 0, Null, deleteBox(UidNames[i]))

Spec == Init /\ [][Next]_vars

\* Two-finger exploration: photos are picked and loaded, two pointers draw
\* and pinch, boxes are deleted and cleared; this reaches longer gestures.
GestureEvent(name, id, p, A) ==
    steps < MaxGestureSteps /\ A /\ RecordBrief(name)

NextGesture ==
    \/ \E id \in GestureIds, p \in DevicePoints :
           GestureEvent("onPointerDown", id, p, onPointerDown(id, p))
    \/ \E id \in GestureIds, p \in DevicePoints :
           GestureEvent("onPointerMove", id, p, onPointerMove(id, p))
    \/ \E id \in GestureIds :
           GestureEvent("onPointerUp", id, Null, onPointerUp(id))
    \/ \E id \in GestureIds :
           GestureEvent("onPointerCancel", id, Null, onPointerCancel(id))
    \/ \E nat \in ImageSizes :
           GestureEvent("onFileChange", 0, Null, onFileChange(nat))
    \/ GestureEvent("imgOnLoad", 0, Null, imgOnLoad)
    \/ \E t \in BoxTypes :
           GestureEvent("setActiveDrawType", 0, Null, setActiveDrawType(t))
    \/ GestureEvent("ClearBoxes", 0, Null, ClearBoxes)
    \/ GestureEvent("ResetViewClick", 0, Null, ResetViewClick)
    \/ \E i \in 1..Len(UidNames) :
           GestureEvent("deleteBox", 0, Null, deleteBox(UidNames[i]))

SpecGesture == Init /\ [][NextGesture]_vars

\* One-pointer exploration of the measurement pipeline: one pointer draws,
\* boxes are deleted and cleared, the preset and the inches are edited.
MeasureEvent(name, id, p, A) ==
    steps < MaxMeasureSteps /\ A /\ RecordBrief(name)

NextMeasure ==
    \/ \E id \in MeasureIds, p \in DevicePoints :
           MeasureEvent("onPointerDown", id, p, onPointerDown(id, p))
    \/ \E id \in MeasureIds, p \in DevicePoints :
           MeasureEvent("onPointerMove", id, p, onPointerMove(id, p))
    \/ \E id \in MeasureIds :
           MeasureEvent("onPointerUp", id, Null, onPointerUp(id))
    \/ \E nat \in ImageSizes :
           MeasureEvent("onFileChange", 0, Null, onFileChange(nat))
    \/ MeasureEvent("imgOnLoad", 0, Null, imgOnLoad)
    \/ \E t \in BoxTypes :
           MeasureEvent("setActiveDrawType", 0, Null, setActiveDrawType(t))
    \/ \E p \in Presets :
           MeasureEvent("syncRefPreset", 0, Null, syncRefPreset(p))
    \/ \E v \in InchesInputs :
           MeasureEvent("setRefRealInches", 0, Null, setRefRealInches(v))
    \/ MeasureEvent("ClearBoxes", 0, Null, ClearBoxes)
    \/ \E i \in 1..Len(UidNames) :
           MeasureEvent("deleteBox", 0, Null, deleteBox(UidNames[i]))

SpecMeasure == Init /\ [][NextMeasure]_vars

\* The 1000x800 photo of the end-to-end scenario, letterboxed in the canvas
\* (base scale 3/500, base offset 8/5 down): one pointer draws on it.
ScenarioEvent(name, id, p, A) ==
    steps < MaxScenarioSteps /\ A /\ Record(name, id, p)

NextScenario ==
    \/ \E id \in MeasureIds, p \in ScenarioPoints :
           ScenarioEvent("onPointerDown", id, p, onPointerDown(id, p))
    \/ \E id \in MeasureIds, p \in ScenarioPoints :
           ScenarioEvent("onPointerMove", id, p, onPointerMove(id, p))
    \/ \E id \in MeasureIds :
           ScenarioEvent("onPointerUp", id, Null, onPointerUp(id))
    \/ \E nat \in ScenarioImageSizes :
           ScenarioEvent("onFileChange", 0, Null, onFileChange(nat))
    \/ ScenarioEvent("imgOnLoad", 0, Null, imgOnLoad)
    \/ \E t \in BoxTypes :
           ScenarioEvent("setActiveDrawType", 0, Null, setActiveDrawType(t))
    \/ \E i \in 1..Len(UidNames) :
           ScenarioEvent("deleteBox", 0, Null, deleteBox(UidNames[i]))

SpecScenario == Init /\ [][NextScenario]_vars

\* A whole session on one photo: two pointers on two device points pinch
\* and draw, the draw type is switched and boxes are deleted; this reaches
\* a calibration and a measurement rectangle drawn after a pinch, and a
\* third measurement rectangle drawn after a delete.
\* the brief record, and whether a measurement rectangle has been deleted
RecordSession(name) ==
    /\ steps' = steps + 1
    /\ event' = [event EXCEPT
                    !.name = name,
                    !.draft = draftBox,
                    !.pinched =
                        IF name = "onPointerDown" /\ Size(pointers') = 2
                        THEN TRUE
                        ELSE IF Size(pointers') = 0 THEN FALSE
                        ELSE event.pinched,
                    !.deleted =
                        \/ event.deleted
                        \/ /\ name = "deleteBox"
                           /\ Len(windowBoxesOf(boxes')) < Len(windowBoxes)]
    /\ UNCHANGED probe

SessionEvent(name, id, p, A) ==
    steps < MaxSessionSteps /\ A /\ RecordSession(name)

NextSession ==
    \/ \E id \in GestureIds, p \in SessionPoints :
           SessionEvent("onPointerDown", id, p, onPointerDown(id, p))
    \/ \E id \in GestureIds, p \in SessionPoints :
           SessionEvent("onPointerMove", id, p, onPointerMove(id, p))
    \/ \E id \in GestureIds :
           SessionEvent("onPointerUp", id, Null, onPointerUp(id))
    \/ \E id \in GestureIds :
           SessionEvent("onPointerCancel", id, Null, onPointerCancel(id))
    \/ \E nat \in ImageSizes :
           SessionEvent("onFileChange", 0, Null, onFileChange(nat))
    \/ SessionEvent("imgOnLoad", 0, Null, imgOnLoad)
    \/ \E t \in BoxTypes :
           SessionEvent("setActiveDrawType", 0, Null, setActiveDrawType(t))
    \/ \E i \in 1..Len(UidNames) :
           SessionEvent("deleteBox", 0, Null, deleteBox(UidNames[i]))

SpecSession == Init /\ [][NextSession]_vars

\* The coordinate transforms as pure functions: a photo is loaded, the view
\* is any view a pinch can leave, and each step maps one point.
InitTransform ==
    /\ build \in Builds
    /\ imageUrl = "blob"
    /\ imgLoading = Null
    /\ imageNatural \in TransformImageSizes \cup {Null}
    /\ boxes = <<>>
    /\ activeDrawType = "reference"
    /\ dragStart = Null
    /\ draftBox = Null
    /\ refPreset = "paper"
    /\ refRealInches = R(11)
    /\ view \in TransformViews
    /\ pointers = [i \in PointerIds |-> Null]
    /\ pinchStart = Null
    /\ steps = 0
    /\ event = [name |-> "init", id |-> 0, draft |-> Null, owner |-> 0,
                outside |-> FALSE, downOff |-> FALSE, moveOff |-> FALSE,
                pinched |-> FALSE, live |-> {}, base |-> Null,
                deleted |-> FALSE]
    /\ probe = Null

\* the renderer places the image point pt, the device point obtained is
\* mapped back
Project(rect, f) ==
    /\ probe = Null
    /\ imageNatural # Null
    /\ LET info == getCanvasAndImageScaleOf(imageNatural, rect)
           pt == [x |-> Mul(f.x, imageNatural.w), y |-> Mul(f.y, imageNatural.h)]
           d == imageToDevice(info, view, pt)
       IN  probe' = [op |-> "imageToDevice", rect |-> rect, p |-> pt,
                     device |-> d, fit |-> info,
                     image |-> canvasPointToImagePointOf(info, imageNatural,
                                                         view, d.x, d.y)]
    /\ UNCHANGED <<build, imageUrl, imgLoading, imageNatural, boxes,
                   activeDrawType, dragStart, draftBox, refPreset,
                   refRealInches, view, pointers, pinchStart, steps, event>>

\* a pointer event's client point is mapped to the image
Unproject(rect, d) ==
    /\ probe = Null
    /\ probe' = [op |-> "canvasPointToImagePoint", rect |-> rect, p |-> Null,
                 device |-> d,
                 fit |-> getCanvasAndImageScaleOf(imageNatural, rect),
                 image |-> canvasPointToImagePointOf(
                               getCanvasAndImageScaleOf(imageNatural, rect),
                               imageNatural, view, d.x, d.y)]
    /\ UNCHANGED <<build, imageUrl, imgLoading, imageNatural, boxes,
                   activeDrawType, dragStart, draftBox, refPreset,
                   refRealInches, view, pointers, pinchStart, steps, event>>

\* the photo is fitted into the canvas
Fit(rect) ==
    /\ probe = Null
    /\ probe' = [op |-> "getCanvasAndImageScale", rect |-> rect, p |-> Null,
                 device |-> Null, image |-> Null,
                 fit |-> getCanvasAndImageScaleOf(imageNatural, rect)]
    /\ UNCHANGED <<build, imageUrl, imgLoading, imageNatural, boxes,
                   activeDrawType, dragStart, draftBox, refPreset,
                   refRealInches, view, pointers, pinchStart, steps, event>>

NextTransform ==
    \/ \E rect \in TransformRects : Fit(rect)
    \/ \E rect \in TransformRects, f \in ImageFractions : Project(rect, f)
    \/ \E rect \in TransformRects, d \in TransformDevicePoints :
           Unproject(rect, d)

SpecTransform == InitTransform /\ [][NextTransform]_vars

(***************************************************************************)
(* Properties.                                                             *)
(***************************************************************************)
RefIndexes(bs) == { i \in 1..Len(bs) : bs[i].type = "reference" }

RefCount(bs) == Cardinality(RefIndexes(bs))

SameGeometry(a, b) == a.x = b.x /\ a.y = b.y /\ a.w = b.w /\ a.h = b.h

\* the draft released by the last event was below 10 px in w or in h
SubThreshold(d) == Lt(d.w, R(10)) \/ Lt(d.h, R(10))

\* the last event released the last pointer while a draft existed
ReleasedDraft ==
    /\ event.name = "onPointerUp"
    /\ Size(pointers) = 0
    /\ event.draft # Null

\* C1: the annotation set never holds more than one "reference" box.
C1_AtMostOneCalibration == RefCount(boxes) <= 1

\* a second reference box has just been committed over the first one
C1_Witness ==
    /\ ReleasedDraft
    /\ event.draft.type = "reference"
    /\ Len(boxes) = 1
    /\ boxes[1].type = "reference"
    /\ boxes[1].id = "u2"

\* C2: right after a reference drag of at least 10x10 px is committed,
\* exactly one reference box remains and it has the x, y, w, h just drawn.
C2_LastCalibrationRemains ==
    (/\ ReleasedDraft
     /\ event.draft.type = "reference"
     /\ Ge(event.draft.w, R(10))
     /\ Ge(event.draft.h, R(10)))
    => /\ RefCount(boxes) = 1
       /\ \A i \in RefIndexes(boxes) : SameGeometry(boxes[i], event.draft)

\* the second of two reference boxes drawn in sequence is the one that remains
C2_Witness ==
    /\ ReleasedDraft
    /\ event.draft.type = "reference"
    /\ Ge(event.draft.w, R(10)) /\ Ge(event.draft.h, R(10))
    /\ RefCount(boxes) = 1
    /\ \E i \in RefIndexes(boxes) :
          boxes[i].id = "u2" /\ SameGeometry(boxes[i], event.draft)

\* C3: every committed box has w >= 10 and h >= 10 image pixels.
C3_MinimumSize ==
    \A i \in 1..Len(boxes) : Ge(boxes[i].w, R(10)) /\ Ge(boxes[i].h, R(10))

\* C4: releasing the last pointer on a draft with w < 10 or h < 10 clears
\* the draft and the drag anchor and leaves the annotation set unchanged.
C4_TinyDragDiscarded ==
    [][(/\ event'.name = "onPointerUp"
        /\ Size(pointers') = 0
        /\ draftBox # Null
        /\ SubThreshold(draftBox))
       => (boxes' = boxes /\ draftBox' = Null /\ dragStart' = Null)]_vars

\* a tiny reference drag was released and the earlier reference box is kept
C4_Witness ==
    /\ ReleasedDraft
    /\ SubThreshold(event.draft)
    /\ event.draft.type = "reference"
    /\ RefCount(boxes) = 1
    /\ draftBox = Null
    /\ dragStart = Null

\* C5: the viewport scale always lies in [1, 6].
C5_ScaleInRange == Ge(view.scale, R(1)) /\ Le(view.scale, R(6))

\* C6: whenever two or more pointers are tracked there is no draft.
C6_NoDraftWithTwoPointers == Size(pointers) >= 2 => draftBox = Null

\* C7: a cancel event leaves no tracked pointer, no pinch baseline, no draft
\* and no drag anchor, and does not change the annotation set.
C7_CancelResets ==
    [][event'.name = "onPointerCancel"
       => (/\ Size(pointers') = 0
           /\ pinchStart' = Null
           /\ draftBox' = Null
           /\ dragStart' = Null
           /\ boxes' = boxes)]_vars

\* a pointer event other than a committing release
DraftOnlyEvent ==
    /\ event'.name \in {"onPointerDown", "onPointerMove", "onPointerUp",
                        "onPointerCancel"}
    /\ ~(/\ event'.name = "onPointerUp"
         /\ Size(pointers') = 0
         /\ draftBox # Null
         /\ ~SubThreshold(draftBox))

\* sum of (w/ppi)*(h/ppi)/144 over the "window" boxes
RECURSIVE AreaSum(_, _)
AreaSum(bs, ppi) ==
    IF bs = <<>> THEN R(0)
    ELSE Add(AreaSum(Tail(bs), ppi),
             IF Head(bs).type = "window"
             THEN Div(Mul(Head(bs).w, Head(bs).h), Mul(R(144), Mul(ppi, ppi)))
             ELSE R(0))

\* no committed box is the draft, and a defined total area is the sum over
\* the committed window boxes alone
C8_CommittedOnly ==
    /\ \A i \in 1..Len(boxes) : boxes[i].id # "draft"
    /\ windowSqft # Null => windowSqft = AreaSum(boxes, pixelsPerInch)

\* C8: no committed box carries the identity "draft"; the total window area
\* is computed from the committed window boxes only, and creating, resizing
\* or discarding a draft leaves the committed boxes unchanged.
C8_DraftNeverPersisted ==
    /\ []C8_CommittedOnly
    /\ [][DraftOnlyEvent => boxes' = boxes]_vars

\* a window draft is being drawn while a committed window has a defined area
C8_Witness ==
    /\ draftBox # Null
    /\ draftBox.type = "window"
    /\ draftBox.id = "draft"
    /\ Len(windowBoxes) = 1
    /\ windowSqft # Null
    /\ Gt(windowSqft, R(0))

\* C9: pixelsPerInch is undefined exactly when there is no reference box or
\* the inches value is <= 0; otherwise it is the reference box's height
\* divided by the inches value.
C9_PixelsPerInch ==
    /\ (pixelsPerInch = Null) <=>
           (RefCount(boxes) = 0 \/ Le(refRealInches, R(0)))
    /\ pixelsPerInch # Null =>
           \E i \in RefIndexes(boxes) :
               Mul(pixelsPerInch, refRealInches) = boxes[i].h

\* a reference box taller than wide is measured with a custom inches value
C9_Witness ==
    /\ RefCount(boxes) = 1
    /\ refPreset = "custom"
    /\ Gt(refRealInches, R(0))
    /\ pixelsPerInch # Null
    /\ \E i \in RefIndexes(boxes) : boxes[i].w # boxes[i].h

\* C10: the total window area is undefined when pixelsPerInch is undefined;
\* otherwise it is the sum of (w/ppi)*(h/ppi)/144 over the window boxes.
C10_TotalWindowArea ==
    IF pixelsPerInch = Null THEN windowSqft = Null
    ELSE windowSqft = AreaSum(boxes, pixelsPerInch)

\* |a - b| < tol for a defined number a
Approx(a, b, tol) == a # Null /\ Lt(MathAbs(Sub(a, b)), tol)

\* the end-to-end scenario has been drawn: on the 1000x800 photo, with the
\* 11-inch preset, a reference box of 50x200 and one window box of 100x50
ScenarioDrawn ==
    /\ imageNatural = [w |-> R(1000), h |-> R(800)]
    /\ refPreset = "paper"
    /\ Len(boxes) = 2
    /\ \E i \in 1..2 : /\ boxes[i].type = "reference"
                       /\ boxes[i].w = R(50) /\ boxes[i].h = R(200)
    /\ \E i \in 1..2 : /\ boxes[i].type = "window"
                       /\ boxes[i].w = R(100) /\ boxes[i].h = R(50)

\* C11: in the end-to-end scenario (1000x800 photo, reference box 50x200 at
\* 11 inches, one window box 100x50) the total window area is about 1.05
\* square feet.
C11_ScenarioArea ==
    ScenarioDrawn => Approx(windowSqft, Norm(105, 100), Norm(5, 1000))

\* C11 as amended: in the end-to-end scenario the total window area is
\* (100 / (200/11)) * (50 / (200/11)) / 144 = 121/1152, about 0.105 sq ft.
C11_ScenarioAreaTenth ==
    ScenarioDrawn => /\ windowSqft = Norm(121, 1152)
                     /\ Approx(windowSqft, Norm(105, 1000), Norm(5, 10000))

\* the scenario was drawn by two drags and its area is defined
C11_Witness ==
    /\ ScenarioDrawn
    /\ ReleasedDraft
    /\ pixelsPerInch = Norm(200, 11)
    /\ windowSqft # Null

\* C12: whenever the total window area is undefined or 0 the pricing output
\* is absent.
C12_PricingGated ==
    (windowSqft = Null \/ windowSqft = R(0)) => pricing = Null

\* a reference box alone: the area is a defined 0 and no pricing is shown
C12_Witness ==
    /\ pixelsPerInch # Null
    /\ windowSqft = R(0)
    /\ pricing = Null

\* the relations of C13 for the retail-high rate hi
PricingRelations(hi) ==
    pricing # Null =>
        LET A == windowSqft
        IN  /\ pricing.retailLowTotal = Mul(R(14), A)
            /\ pricing.retailHighTotal = Mul(R(hi), A)
            /\ pricing.commissionLow =
                   Sub(pricing.retailLowTotal, Mul(R(12), A))
            /\ pricing.commissionHigh =
                   Sub(pricing.retailHighTotal, Mul(R(12), A))
            /\ Le(pricing.retailLowTotal, pricing.retailHighTotal)
            /\ Le(R(0), pricing.commissionLow)
            /\ Le(pricing.commissionLow, pricing.commissionHigh)

\* C13: when pricing is present for area A, retailLow = 14*A, retailHigh =
\* 15*A, each commission is the retail total minus 12*A, retailLow <=
\* retailHigh and 0 <= commissionLow <= commissionHigh.
C13_PricingFormula == PricingRelations(15)

\* C13 as amended: the same, with retailHigh = 15*A in src/unnamed/part_000
\* and retailHigh = 16*A in src/src/App.tsx.
C13_PricingFormulaPerBuild ==
    PricingRelations(IF build = "part_000" THEN 15 ELSE 16)

\* pricing is shown for a positive area in the build of App.tsx
C13_Witness ==
    /\ build = "App"
    /\ pricing # Null
    /\ Gt(windowSqft, R(0))
    /\ pricing.retailHighTotal = Mul(R(16), windowSqft)

\* C14: for an image point p inside the image, any base fit and any view
\* with scale in [1, 6], the renderer's forward chain followed by
\* canvasPointToImagePoint yields p again.
C14_RoundTrip ==
    (/\ probe # Null
     /\ probe.op = "imageToDevice"
     /\ Ge(view.scale, R(1)) /\ Le(view.scale, R(6)))
    => probe.image = probe.p

\* an inner point of the letterboxed photo went through a zoomed and panned
\* view on the canvas away from the page origin, and came back
C14_Witness ==
    /\ probe # Null
    /\ probe.op = "imageToDevice"
    /\ imageNatural = [w |-> R(1000), h |-> R(800)]
    /\ probe.rect.left = R(10)
    /\ view = [scale |-> Norm(3, 2), tx |-> R(2), ty |-> R(-1)]
    /\ probe.p = [x |-> Norm(1000, 3), y |-> R(400)]
    /\ probe.image = probe.p

\* C15: canvasPointToImagePoint returns absent when the mapped image point
\* has x < 0, y < 0, x > W or y > H, returns the mapped point when it lies
\* in [0,W]x[0,H], and returns absent when no image is loaded.
C15_BoundsRejection ==
    (probe # Null /\ probe.op = "canvasPointToImagePoint") =>
        IF imageNatural = Null THEN probe.image = Null
        ELSE LET q == MappedPoint(probe.rect, imageNatural, view, probe.device)
             IN  /\ OutsideImage(imageNatural, q) => probe.image = Null
                 /\ InsideImage(imageNatural, q) => probe.image = q

\* a client point right of and below the photo, but not left of or above
\* it, was rejected
C15_Witness ==
    /\ probe # Null
    /\ probe.op = "canvasPointToImagePoint"
    /\ imageNatural # Null
    /\ probe.image = Null
    /\ LET q == MappedPoint(probe.rect, imageNatural, view, probe.device)
       IN  /\ Gt(q.x, imageNatural.w) /\ Gt(q.y, imageNatural.h)
           /\ Ge(q.x, R(0)) /\ Ge(q.y, R(0))

\* a client point mapping into the photo was returned as the mapped point
C15_InsideReturned ==
    /\ probe # Null
    /\ probe.op = "canvasPointToImagePoint"
    /\ imageNatural # Null
    /\ probe.image # Null
    /\ Gt(probe.image.x, R(0))
    /\ probe.image = MappedPoint(probe.rect, imageNatural, view, probe.device)

\* C16: right after a new photo is picked (onFileChange) and right after
\* the "Reset view" button, the view is {scale 1, tx 0, ty 0}.
C16_ViewResetOnLoad ==
    [][event'.name \in {"onFileChange", "ResetViewClick"}
       => view' = [scale |-> R(1), tx |-> R(0), ty |-> R(0)]]_vars

\* the last pointer was released and a window box was appended
WindowAppended ==
    /\ event'.name = "onPointerUp"
    /\ Len(boxes') = Len(boxes) + 1
    /\ boxes'[Len(boxes')].type = "window"

\* C17: a committed window box is labelled "Window N" with N one more than
\* the number of window boxes in the set at the moment it is appended.
C17_LabelAtAppend ==
    [][WindowAppended
       => boxes'[Len(boxes')].label = WindowLabels[Len(windowBoxes) + 1]]_vars

\* C17 as amended: the label "Window N" is fixed when the draft is created,
\* with N one more than the number of window boxes at that pointer-down; it
\* is kept while the draft is resized and is the label of the committed box.
C17_LabelAtDraftCreation ==
    [][/\ (/\ event'.name = "onPointerDown"
           /\ draftBox' # Null
           /\ draftBox'.type = "window")
          => draftBox'.label = WindowLabels[Len(windowBoxes) + 1]
       /\ (/\ event'.name # "onPointerDown"
           /\ draftBox # Null
           /\ draftBox' # Null)
          => draftBox'.label = draftBox.label
       /\ WindowAppended
          => boxes'[Len(boxes')].label = draftBox.label]_vars

\* "Window 1" was deleted during the drag of "Window 2", which is now the
\* only window box
C17_Witness ==
    /\ ReleasedDraft
    /\ event.draft.type = "window"
    /\ Len(windowBoxes) = 1
    /\ windowBoxes[1].label = "Window 2"

\* C18: while a draft exists, a move event of a pointer other than the one
\* whose down event created the draft leaves the draft unchanged.
C18_OnlyOwnerResizes ==
    [][(/\ event'.name = "onPointerMove"
        /\ draftBox # Null
        /\ event'.id # event.owner)
       => draftBox' = draftBox]_vars

\* C19: when the down point or a move point of a one-pointer drag maps
\* outside the image, releasing the pointer commits no rectangle.
C19_OffImageRejected ==
    [][(/\ event'.name = "onPointerUp"
        /\ Size(pointers') = 0
        /\ (event.downOff \/ event.moveOff))
       => boxes' = boxes]_vars

\* C19 as amended: a down point that maps outside the image creates no
\* draft and the release of that gesture commits no rectangle; a move point
\* that maps outside the image leaves the draft as it is.
C19_OffImageIgnored ==
    [][/\ (event'.name = "onPointerDown" /\ event'.downOff)
          => draftBox' = Null
       /\ (event'.name = "onPointerUp" /\ Size(pointers') = 0 /\ event.downOff)
          => boxes' = boxes
       /\ (event'.name = "onPointerMove" /\ event'.outside)
          => draftBox' = draftBox]_vars

\* a drag that travelled off the image was committed all the same
C19_Witness ==
    /\ ReleasedDraft
    /\ event.moveOff
    /\ ~event.downOff
    /\ Len(boxes) = 1
    /\ boxes[1].id # "draft"

\* a gesture that started off the image ended without a box
C19_StartedOff ==
    /\ event.name = "onPointerUp"
    /\ event.downOff
    /\ imageNatural # Null
    /\ boxes = <<>>

\* the inches value of each fixed preset
C20_PresetInches ==
    /\ refPreset = "paper" => refRealInches = R(11)
    /\ refPreset = "door" => refRealInches = R(80)

\* C20: with the preset "paper" the inches value is 11, with "door" it is
\* 80, and selecting "custom" leaves the value unchanged.
C20_PresetAgreesWithInches ==
    /\ []C20_PresetInches
    /\ [][(event'.name = "syncRefPreset" /\ refPreset' = "custom")
          => refRealInches' = refRealInches]_vars

\* the last event was a move of a tracked pointer while two pointers were
\* tracked and a pinch baseline existed (a move changes neither the set of
\* tracked pointers nor the baseline)
PinchMoved ==
    /\ event.name = "onPointerMove"
    /\ pointers[event.id] # Null
    /\ Size(pointers) = 2
    /\ pinchStart # Null

\* clamp(s, lo, hi) by comparison; a NaN passes through, as every comparison
\* with it is false
Clamp(s, lo, hi) == IF Lt(s, lo) THEN lo ELSE IF Gt(s, hi) THEN hi ELSE s

\* distance and midpoint of the two tracked pointers
CurrentDistance ==
    LET a == pointers[FirstTracked(pointers)]
        b == pointers[SecondTracked(pointers)]
    IN  MathSqrt(Add(Mul(Sub(a.x, b.x), Sub(a.x, b.x)),
                     Mul(Sub(a.y, b.y), Sub(a.y, b.y))))

CurrentMid ==
    LET a == pointers[FirstTracked(pointers)]
        b == pointers[SecondTracked(pointers)]
    IN  [x |-> Div(Add(a.x, b.x), R(2)), y |-> Div(Add(a.y, b.y), R(2))]

\* C21: after a pointer move with two tracked pointers and a pinch baseline,
\* scale = clamp(baseline.scale * currentDistance / baseline.dist, 1, 6),
\* tx = baseline.tx + (currentMid.x - baseline.mid.x) and likewise ty: the
\* view is computed from the baseline, not from the previous view.
C21_PinchFormula ==
    PinchMoved =>
        view = [scale |-> Clamp(Div(Mul(pinchStart.scale, CurrentDistance),
                                    pinchStart.dist), R(1), R(6)),
                tx |-> Add(pinchStart.tx,
                           Sub(CurrentMid.x, pinchStart.mid.x)),
                ty |-> Add(pinchStart.ty,
                           Sub(CurrentMid.y, pinchStart.mid.y))]

\* a pinch that started at scale 2 with the fingers 10 apart has been moved
\* to 5 apart: the scale is back to 1 (and not 2 * 1/2 of a compounded zoom
\* that went through an intermediate view)
C21_Witness ==
    /\ PinchMoved
    /\ pinchStart.scale = R(1)
    /\ pinchStart.dist = R(5)
    /\ CurrentDistance = R(10)
    /\ view.scale = R(2)
    /\ view.tx # R(0)

\* C22: after a pinch move, the image point under the current two-pointer
\* midpoint in the new view is the image point that was under the baseline
\* midpoint in the baseline view.
C22_MidpointAnchored ==
    (PinchMoved /\ imageNatural # Null) =>
        canvasPointToImagePoint(CurrentMid.x, CurrentMid.y) =
            canvasPointToImagePointOf(
                getCanvasAndImageScale, imageNatural,
                [scale |-> pinchStart.scale, tx |-> pinchStart.tx,
                 ty |-> pinchStart.ty],
                pinchStart.mid.x, pinchStart.mid.y)

\* right after the down event of a second pointer: no draft, no drag anchor,
\* and the baseline holds the two pointers' distance and midpoint and the
\* current view (which the down event leaves as it was)
C23_BaselineCaptured ==
    (event.name = "onPointerDown" /\ Size(pointers) = 2) =>
        /\ draftBox = Null
        /\ dragStart = Null
        /\ pinchStart = [dist |-> CurrentDistance, mid |-> CurrentMid,
                         scale |-> view.scale, tx |-> view.tx, ty |-> view.ty]

C23_PinchReleased ==
    /\ event.name = "onPointerUp"
    /\ Size(pointers) = 0
    /\ view.scale = R(2)
    /\ boxes = <<>>

\* every tracked pointer is live
C24_TrackedAreLive == Tracked(pointers) \subseteq event.live

\* C24: the pointer map holds only live pointers (a down event and no later
\* up or cancel event of that pointer), and a move event of an untracked
\* pointer changes nothing.
C24_OnlyLivePointers ==
    /\ []C24_TrackedAreLive
    /\ [][(event'.name = "onPointerMove" /\ pointers[event'.id] = Null)
          => UNCHANGED <<build, imageUrl, imgLoading, imageNatural, boxes,
                         activeDrawType, dragStart, draftBox, refPreset,
                         refRealInches, view, pointers, pinchStart>>]_vars

\* one of two tracked pointers was released: it is no longer tracked, the
\* other one still is
C24_Witness ==
    /\ event.name = "onPointerUp"
    /\ pointers[event.id] = Null
    /\ event.id \notin event.live
    /\ Size(pointers) = 1
    /\ Tracked(pointers) = event.live

\* a pointer that is not tracked has moved
C24_UntrackedMoved ==
    /\ event.name = "onPointerMove"
    /\ pointers[event.id] = Null
    /\ Size(pointers) = 1
    /\ draftBox # Null

\* C25: whenever fewer than two pointers are tracked there is no pinch
\* baseline.
C25_NoBaselineBelowTwo == Size(pointers) < 2 => pinchStart = Null

\* one of the two pointers of a pinch that moved the view was released
C25_Witness ==
    /\ event.name = "onPointerUp"
    /\ Size(pointers) = 1
    /\ view.tx # R(0)
    /\ pinchStart = Null

\* C26: whenever no pointer is tracked there is no draft and no drag anchor.
C26_NoDraftWhenIdle ==
    Size(pointers) = 0 => (draftBox = Null /\ dragStart = Null)

\* the only tracked pointer was cancelled in the middle of a drag
C26_Witness ==
    /\ event.name = "onPointerCancel"
    /\ event.draft # Null
    /\ Size(pointers) = 0
    /\ draftBox = Null
    /\ dragStart = Null

\* C30: the view is changed only by a pinch move (two tracked pointers and
\* a baseline), by the "Reset view" button and by picking a photo.
C30_ViewFrame ==
    [][view' # view =>
          \/ event'.name \in {"ResetViewClick", "onFileChange"}
          \/ /\ event'.name = "onPointerMove"
             /\ Size(pointers') = 2
             /\ pinchStart # Null]_vars

\* the boxes were cleared in a view that a pinch had panned, and the view
\* is still panned
C30_Witness ==
    /\ event.name = "ClearBoxes"
    /\ view.tx # R(0)

\* the position of the only tracked pointer
OnlyPointer == pointers[FirstTracked(pointers)]

\* right after the down event of a first pointer on a loaded photo: a draft
\* exists exactly if the point maps into the image, and it is the 1x1 draft
\* of the selected kind at the anchor
C27_DraftAtValidPoint ==
    (/\ event.name = "onPointerDown"
     /\ Size(pointers) = 1
     /\ imageNatural # Null) =>
        LET q == MappedPoint(CanvasRect, imageNatural, view, OnlyPointer)
        IN  /\ (draftBox # Null) <=> InsideImage(imageNatural, q)
            /\ draftBox # Null =>
                   /\ draftBox.id = "draft"
                   /\ draftBox.type = activeDrawType
                   /\ dragStart = q
                   /\ draftBox.x = q.x /\ draftBox.y = q.y
                   /\ draftBox.w = R(1) /\ draftBox.h = R(1)

\* the last pointer was released and a box was committed from the draft
BoxCommitted ==
    /\ event'.name = "onPointerUp"
    /\ draftBox # Null
    /\ boxes' # boxes

\* C27: a first pointer's down event on a loaded photo creates a draft if
\* and only if its point maps to a valid image point; the draft has the
\* identity "draft", the selected kind, the anchor as x, y and size 1x1; the
\* kind is kept during the drag and by the committed box, also when the
\* selected kind changes meanwhile; an off-image down tracks the pointer
\* without a draft.
C27_DraftCreation ==
    /\ []C27_DraftAtValidPoint
    /\ [][(draftBox # Null /\ draftBox' # Null
           /\ event'.name # "onPointerDown")
          => draftBox'.type = draftBox.type]_vars
    /\ [][BoxCommitted
          => boxes'[Len(boxes')].type = draftBox.type]_vars

\* a move of the only tracked pointer, to a valid image point, while a draft
\* with an anchor was being dragged
DragMoved ==
    /\ event.name = "onPointerMove"
    /\ pointers[event.id] # Null
    /\ Size(pointers) = 1
    /\ event.draft # Null
    /\ dragStart # Null
    /\ imageNatural # Null
    /\ InsideImage(imageNatural,
                   MappedPoint(CanvasRect, imageNatural, view,
                               pointers[event.id]))

\* C28: after a pointer move during a one-pointer drag to a valid image
\* point p with anchor a, the draft is x = min(a.x, p.x), y = min(a.y, p.y),
\* w = |p.x - a.x|, h = |p.y - a.y|, in each of the four directions, so
\* w >= 0 and h >= 0, and its kind, label and identity are those it had
\* before the move.
C28_DraftSpansAnchorAndPoint ==
    DragMoved =>
        LET p == MappedPoint(CanvasRect, imageNatural, view,
                             pointers[event.id])
            a == dragStart
        IN  /\ draftBox # Null
            /\ draftBox.x = MathMin(a.x, p.x)
            /\ draftBox.y = MathMin(a.y, p.y)
            /\ draftBox.w = MathAbs(Sub(p.x, a.x))
            /\ draftBox.h = MathAbs(Sub(p.y, a.y))
            /\ Ge(draftBox.w, R(0))
            /\ Ge(draftBox.h, R(0))
            /\ draftBox.type = event.draft.type
            /\ draftBox.label = event.draft.label
            /\ draftBox.id = event.draft.id

\* a drag to the left of the anchor on the same row: x moves off the anchor,
\* the width is positive and the height is 0
C28_Witness ==
    /\ DragMoved
    /\ Lt(draftBox.x, dragStart.x)
    /\ draftBox.y = dragStart.y
    /\ Gt(draftBox.w, R(0))
    /\ draftBox.h = R(0)

\* a drag up and to the left of the anchor
C28_UpLeft ==
    /\ DragMoved
    /\ Lt(draftBox.x, dragStart.x)
    /\ Lt(draftBox.y, dragStart.y)

\* a drag down and to the right of the anchor
C28_DownRight ==
    /\ DragMoved
    /\ draftBox.x = dragStart.x
    /\ draftBox.y = dragStart.y
    /\ Gt(draftBox.w, R(0))
    /\ Gt(draftBox.h, R(0))

\* the base fit of a loaded image on a surface was computed
FitComputed ==
    /\ probe # Null
    /\ probe.op = "getCanvasAndImageScale"
    /\ imageNatural # Null

\* C29: getCanvasAndImageScale is contain fitting: the fitted image is no
\* wider and no higher than the surface and fills at least one axis, it
\* keeps the aspect ratio of the image, the offsets centre it (one of them
\* is 0), and baseScale = baseW / natural width.
C29_ContainFit ==
    FitComputed =>
        LET i == probe.fit
            W == probe.rect.width
            H == probe.rect.height
        IN  /\ i # Null
            /\ Le(i.baseW, W)
            /\ Le(i.baseH, H)
            /\ (i.baseW = W \/ i.baseH = H)
            /\ Div(i.baseW, i.baseH) = Div(imageNatural.w, imageNatural.h)
            /\ i.baseOffsetX = Div(Sub(W, i.baseW), R(2))
            /\ i.baseOffsetY = Div(Sub(H, i.baseH), R(2))
            /\ (i.baseOffsetX = R(0) \/ i.baseOffsetY = R(0))
            /\ i.baseScale = Div(i.baseW, imageNatural.w)

\* a letterboxed fit: the image is wider than the surface, bars above and
\* below
C29_Witness ==
    /\ FitComputed
    /\ probe.fit.baseW = probe.rect.width
    /\ Gt(probe.fit.baseOffsetY, R(0))

\* a pillarboxed fit: bars left and right
C29_Pillarboxed ==
    /\ FitComputed
    /\ probe.fit.baseH = probe.rect.height
    /\ Gt(probe.fit.baseOffsetX, R(0))

\* image and surface of the same aspect ratio: both axes filled
C29_ExactFit ==
    /\ FitComputed
    /\ probe.fit.baseW = probe.rect.width
    /\ probe.fit.baseH = probe.rect.height

\* the step is a pointer move during a pinch, or a click on "Reset view"
ViewOnlyStep ==
    \/ event'.name = "ResetViewClick"
    \/ /\ event'.name = "onPointerMove"
       /\ Size(pointers) = 2
       /\ pinchStart # Null

\* C31: pinch moves and the viewport reset leave every committed rectangle
\* (x, y, w, h, kind, label, identity, order) unchanged, and with them
\* pixelsPerInch, the total window area and the pricing, which are computed
\* from the committed rectangles, the inches value and the build's rates
\* only.
C31_ZoomLeavesBoxes ==
    [][ViewOnlyStep =>
          /\ boxes' = boxes
          /\ refRealInches' = refRealInches
          /\ build' = build]_vars

\* a pinch move has changed the view while a calibration rectangle is
\* committed and pixelsPerInch is defined
C31_Witness ==
    /\ event.name = "onPointerMove"
    /\ Size(pointers) = 2
    /\ pinchStart # Null
    /\ view # [scale |-> pinchStart.scale, tx |-> pinchStart.tx,
               ty |-> pinchStart.ty]
    /\ Len(boxes) > 0
    /\ pixelsPerInch # Null

\* "Reset view" was clicked on a zoomed view's successor with a rectangle
\* committed
C31_ResetWithBoxes ==
    /\ event.name = "ResetViewClick"
    /\ Len(boxes) > 0
    /\ pixelsPerInch # Null

\* the sequence bs without its i-th element
RemovedAt(bs, i) == SubSeq(bs, 1, i - 1) \o SubSeq(bs, i + 1, Len(bs))

\* after a delete without a calibration rectangle left, nothing is derived
C32_NoCalibrationNoArea ==
    (event.name = "deleteBox" /\ referenceBox = Null) =>
        /\ pixelsPerInch = Null
        /\ windowSqft = Null
        /\ pricing = Null

\* C32: deleteBox removes exactly the rectangle with the given identity and
\* leaves every other rectangle (identity, kind, geometry, label, order) as
\* it was, so "Window N" labels are not renumbered; after deleting the
\* calibration rectangle pixelsPerInch, the total area and the pricing are
\* absent.
C32_DeleteExactlyOne ==
    /\ []C32_NoCalibrationNoArea
    /\ [][event'.name = "deleteBox" =>
            \E i \in 1..Len(boxes) :
               /\ boxes' = RemovedAt(boxes, i)
               /\ \A j \in 1..Len(boxes') : boxes'[j].id # boxes[i].id
               /\ IsReference(boxes[i]) => referenceBoxOf(boxes') = Null]_vars

\* "Window 1" was deleted and "Window 2" remains, under its label
C32_Witness ==
    /\ event.name = "deleteBox"
    /\ Len(boxes) = 1
    /\ boxes[1].label = "Window 2"

\* the calibration rectangle was deleted while a window rectangle remains
C32_CalibrationDeleted ==
    /\ event.name = "deleteBox"
    /\ referenceBox = Null
    /\ Len(windowBoxes) > 0

\* the identities of the rectangles of bs
IdsOf(bs) == { bs[i].id : i \in 1..Len(bs) }

\* C33: a commit changes the annotation set only so: a measurement
\* rectangle is appended, every existing rectangle staying as it was and
\* where it was; a calibration rectangle replaces the previous calibration
\* rectangle (if any), all measurement rectangles staying as they were and
\* in the same relative order.
C33_CommitFrame ==
    [][(event'.name = "onPointerUp" /\ boxes' # boxes) =>
          /\ draftBox # Null
          /\ LET new == boxes'[Len(boxes')]
             IN  /\ SameGeometry(new, draftBox)
                 /\ new.type = draftBox.type
                 /\ new.id \notin IdsOf(boxes)
                 /\ IF IsWindow(draftBox)
                    THEN boxes' = Append(boxes, new)
                    ELSE /\ boxes' = Append(windowBoxesOf(boxes), new)
                         /\ windowBoxesOf(boxes') = windowBoxesOf(boxes)
                         /\ RefCount(boxes') = 1]_vars

\* a calibration rectangle was committed after a measurement rectangle,
\* which is still the first one
C33_Witness ==
    /\ event.name = "onPointerUp"
    /\ event.draft # Null
    /\ Len(boxes) = 2
    /\ IsWindow(boxes[1])
    /\ IsReference(boxes[2])

\* a calibration rectangle was committed in place of the previous one
C33_Replaced ==
    /\ event.name = "onPointerUp"
    /\ event.draft # Null
    /\ Len(boxes) = 1
    /\ IsReference(boxes[1])
    /\ boxes[1].id = "u2"

\* a measurement rectangle was appended behind the calibration rectangle
C33_Appended ==
    /\ event.name = "onPointerUp"
    /\ event.draft # Null
    /\ Len(boxes) = 2
    /\ IsReference(boxes[1])
    /\ IsWindow(boxes[2])

\* the area in square feet that window box b contributes at scale ppi
AreaOf(b, ppi) == Div(Mul(Div(b.w, ppi), Div(b.h, ppi)), R(144))

\* C34: whenever pixelsPerInch is defined it is strictly positive (the
\* calibration rectangle has h >= 10 and the inches value is > 0), so that
\* every committed measurement rectangle contributes a strictly positive
\* area.
C34_PositiveScale ==
    pixelsPerInch # Null =>
        /\ Gt(pixelsPerInch, R(0))
        /\ Ge(referenceBox.h, R(10))
        /\ Gt(refRealInches, R(0))
        /\ \A i \in 1..Len(boxes) :
              IsWindow(boxes[i]) => Gt(AreaOf(boxes[i], pixelsPerInch), R(0))

\* the rectangle b lies inside an image of natural size nat
InsideBox(nat, b) ==
    /\ Ge(b.x, R(0))
    /\ Ge(b.y, R(0))
    /\ Le(Add(b.x, b.w), nat.w)
    /\ Le(Add(b.y, b.h), nat.h)

\* C35: every committed rectangle lies inside the loaded image: 0 <= x,
\* 0 <= y, x + w <= W and y + h <= H for its natural size W x H.
C35_BoxesInsideImage ==
    \A i \in 1..Len(boxes) :
        imageNatural # Null /\ InsideBox(imageNatural, boxes[i])

\* the pricing section is rendered
PricingPresent == pricing # Null

\* C36: the pricing is present if and only if a calibration rectangle
\* exists, the inches value is > 0 and at least one measurement rectangle is
\* committed; the total area shown is then > 0.
C36_PricingPresence ==
    /\ PricingPresent <=>
          (/\ referenceBox # Null
           /\ Gt(refRealInches, R(0))
           /\ Len(windowBoxes) > 0)
    /\ PricingPresent => Gt(windowSqft, R(0))

\* the viewport of the pinch baseline
BaselineView ==
    [scale |-> pinchStart.scale, tx |-> pinchStart.tx, ty |-> pinchStart.ty]

\* a pinch move has put the two pointers of the baseline back at the device
\* positions they had when the baseline was captured
BackAtBaseline ==
    /\ PinchMoved
    /\ event.base # Null
    /\ pointers = event.base

\* C37: pinch moves are relative to the baseline: during one pinch, whenever
\* both pointers are back at the device positions they had when the
\* baseline was captured, the viewport equals the baseline viewport.
C37_PinchRelativeToBaseline == BackAtBaseline => view = BaselineView

\* C38: whenever a pointer move adjusts the viewport, the pinch baseline in
\* use was captured from the same two pointer identities that are tracked
\* at that move.
C38_BaselineOfTrackedPair ==
    PinchMoved =>
        /\ event.base # Null
        /\ Tracked(event.base) = Tracked(pointers)

\* the labels of the committed measurement rectangles are pairwise distinct
DistinctWindowLabels ==
    \A i, j \in 1..Len(windowBoxes) :
        i # j => windowBoxes[i].label # windowBoxes[j].label

\* C39 as stated: in every reachable state the labels of the coexisting
\* committed measurement rectangles are pairwise distinct, for every sequence
\* of commits and deletes.
C39_DistinctLabels == DistinctWindowLabels

\* C39, amended: the labels of the coexisting committed measurement
\* rectangles are pairwise distinct in every reachable state of a session in
\* which no measurement rectangle has been deleted (commits, and deletes of
\* the calibration rectangle only).
C39_DistinctLabelsWithoutDelete == ~event.deleted => DistinctWindowLabels

\* two measurement rectangles coexist and none has been deleted
C39_Witness ==
    /\ ~event.deleted
    /\ Len(windowBoxes) = 2
    /\ windowBoxes[1].label = "Window 1"
    /\ windowBoxes[2].label = "Window 2"

\* right after a new photo was picked or "Clear boxes" was clicked
C40_NothingSurvives ==
    event.name \in {"onFileChange", "ClearBoxes"} =>
        /\ boxes = <<>>
        /\ draftBox = Null
        /\ dragStart = Null
        /\ pixelsPerInch = Null
        /\ windowSqft = Null
        /\ pricing = Null

\* C40: picking a new photo and "Clear boxes" both leave the annotation set
\* empty with no draft and no drag anchor, and pixelsPerInch, the total area
\* and the pricing absent right afterwards; the inches value and the preset
\* are unchanged.
C40_ResetClearsAnnotations ==
    /\ []C40_NothingSurvives
    /\ [][event'.name \in {"onFileChange", "ClearBoxes"} =>
            /\ refRealInches' = refRealInches
            /\ refPreset' = refPreset]_vars

\* a new photo was picked over a loaded one while a drag was under way,
\* with a custom inches value
C40_Witness ==
    /\ event.name = "onFileChange"
    /\ imageNatural # Null
    /\ event.draft # Null
    /\ refPreset = "custom"
    /\ refRealInches = R(20)

\* "Clear boxes" was clicked while a drag was under way
C40_ClearedDuringDrag ==
    /\ event.name = "ClearBoxes"
    /\ event.draft # Null

====
